---- MODULE Spec2Model ----
(***************************************************************************)
(* Binary-like to binary-like casts of                                     *)
(* cpp/src/arrow/compute/kernels/scalar_cast_string.cc.                    *)
(*                                                                         *)
(* An array is a record (type, length, offset, null_count, buffers 0..2).  *)
(* Slot counts and slot indices are small and explicit.  Byte positions    *)
(* and byte counts are int64_t values kept as two limbs <<hi, lo>> of      *)
(* value hi * 2^30 + lo, so that int32_t limits are the real ones.  Byte   *)
(* strings are run-length encoded: a sequence of <<byte, count>> runs with *)
(* maximal runs, which is a lossless encoding of the bytes.                *)
(***************************************************************************)
EXTENDS Integers, Sequences, FiniteSets, TLC

\* ------------------------------------------------------------------------
\* int64_t / int32_t arithmetic

LimbBase == 2^30

I64(n) == <<n \div LimbBase, n % LimbBase>>

Zero64 == I64(0)

Add64(a, b) ==
  LET s == a[2] + b[2]
  IN  <<a[1] + b[1] + (s \div LimbBase), s % LimbBase>>

Sub64(a, b) ==
  LET d == a[2] - b[2]
  IN  <<a[1] - b[1] + (d \div LimbBase), d % LimbBase>>

Lt64(a, b) == a[1] < b[1] \/ (a[1] = b[1] /\ a[2] < b[2])

Leq64(a, b) == a = b \/ Lt64(a, b)

RECURSIVE Mul64(_, _)
Mul64(a, k) ==
  IF k = 0 THEN Zero64
  ELSE LET h == Mul64(a, k \div 2)
           d == Add64(h, h)
       IN  IF k % 2 = 1 THEN Add64(d, a) ELSE d

Int32Max == 2147483647

kMaxOffset32 == I64(Int32Max)

\* static_cast<int32_t>(x) of an int64_t: the low 32 bits, two's complement
CastInt32(a) == <<((a[1] + 2) % 4) - 2, a[2]>>

FitsInt32(a) == a[1] \in -2..1

\* static_cast<offset_type>(x) for offset_type of the given bit width
CastOffset(bits, a) == IF bits = 32 THEN CastInt32(a) ELSE a

\* ------------------------------------------------------------------------
\* Byte strings (run-length encoded)

Cat(s, t) ==
  IF s = <<>> THEN t
  ELSE IF t = <<>> THEN s
  ELSE LET a == s[Len(s)]
           b == t[1]
       IN  IF a[1] = b[1]
           THEN SubSeq(s, 1, Len(s) - 1) \o
                << <<a[1], Add64(a[2], b[2])>> >> \o Tail(t)
           ELSE s \o t

RECURSIVE Bytes(_)
Bytes(q) ==
  IF q = <<>> THEN <<>>
  ELSE Cat(<< <<Head(q), I64(1)>> >>, Bytes(Tail(q)))

Fill(b, n) == IF Leq64(n, Zero64) THEN <<>> ELSE << <<b, n>> >>

RECURSIVE StrLen(_)
StrLen(s) == IF s = <<>> THEN Zero64 ELSE Add64(s[1][2], StrLen(Tail(s)))

RECURSIVE StrDrop(_, _)
StrDrop(s, n) ==
  IF s = <<>> \/ Leq64(n, Zero64) THEN s
  ELSE IF Leq64(s[1][2], n) THEN StrDrop(Tail(s), Sub64(n, s[1][2]))
  ELSE << <<s[1][1], Sub64(s[1][2], n)>> >> \o Tail(s)

RECURSIVE StrTake(_, _)
StrTake(s, n) ==
  IF s = <<>> \/ Leq64(n, Zero64) THEN <<>>
  ELSE IF Leq64(s[1][2], n)
       THEN Cat(<<s[1]>>, StrTake(Tail(s), Sub64(n, s[1][2])))
  ELSE << <<s[1][1], n>> >>

\* std::string_view(data + pos, len)
StrSlice(s, pos, len) == StrTake(StrDrop(s, pos), len)

RECURSIVE CatAll(_)
CatAll(ss) == IF ss = <<>> THEN <<>> ELSE Cat(Head(ss), CatAll(Tail(ss)))

\* ------------------------------------------------------------------------
\* UTF-8 well-formedness (util::ValidateUTF8Inline)

Utf8Step(st, b) ==
  CASE st = "acc" ->
         IF b <= 127 THEN "acc"
         ELSE IF b \in 194..223 THEN "c1"
         ELSE IF b = 224 THEN "e0"
         ELSE IF b \in (225..236) \cup (238..239) THEN "c2"
         ELSE IF b = 237 THEN "ed"
         ELSE IF b = 240 THEN "f0"
         ELSE IF b \in 241..243 THEN "c3"
         ELSE IF b = 244 THEN "f4"
         ELSE "rej"
    [] st = "c1" -> IF b \in 128..191 THEN "acc" ELSE "rej"
    [] st = "c2" -> IF b \in 128..191 THEN "c1" ELSE "rej"
    [] st = "c3" -> IF b \in 128..191 THEN "c2" ELSE "rej"
    [] st = "e0" -> IF b \in 160..191 THEN "c1" ELSE "rej"
    [] st = "ed" -> IF b \in 128..159 THEN "c1" ELSE "rej"
    [] st = "f0" -> IF b \in 144..191 THEN "c2" ELSE "rej"
    [] st = "f4" -> IF b \in 128..143 THEN "c2" ELSE "rej"
    [] OTHER -> "rej"

\* A run of one repeated byte reaches a fixed point of Utf8Step within
\* four steps, so min(count, 4) steps decide the whole run.
RECURSIVE Utf8Run(_, _, _)
Utf8Run(st, b, k) == IF k = 0 THEN st ELSE Utf8Run(Utf8Step(st, b), b, k - 1)

RECURSIVE Utf8Scan(_, _)
Utf8Scan(st, s) ==
  IF s = <<>> THEN st
  ELSE LET n == s[1][2]
           k == IF Lt64(n, I64(4)) THEN n[2] ELSE 4
       IN  Utf8Scan(Utf8Run(st, s[1][1], k), Tail(s))

ValidateUTF8Inline(str) == Utf8Scan("acc", str) = "acc"

\* ------------------------------------------------------------------------
\* Types, buffers, arrays

kInlineSize == 12

kPrefixSize == 4

OffsetType(bits, utf8) ==
  [layout |-> "offset", bits |-> bits, utf8 |-> utf8, width |-> 0]

ViewType(utf8) ==
  [layout |-> "view", bits |-> 0, utf8 |-> utf8, width |-> 0]

FixedSizeBinaryType(w) ==
  [layout |-> "fixed", bits |-> 0, utf8 |-> FALSE, width |-> w]

\* A null std::shared_ptr<Buffer>
NoBuffer ==
  [id |-> 0, bits |-> <<>>, offs |-> <<>>, views |-> <<>>, data |-> <<>>,
   nums |-> <<>>]

\* Buffers by what they hold: validity bits, offsets, views or bytes
BitmapBuf(id, bits) == [NoBuffer EXCEPT !.id = id, !.bits = bits]

OffsetsBuf(id, offs) == [NoBuffer EXCEPT !.id = id, !.offs = offs]

ViewsBuf(id, views) == [NoBuffer EXCEPT !.id = id, !.views = views]

DataBuf(id, data) == [NoBuffer EXCEPT !.id = id, !.data = data]

NumsBuf(id, nums) == [NoBuffer EXCEPT !.id = id, !.nums = nums]

NoBuffers == [k \in 0..2 |-> NoBuffer]

\* A BinaryViewType::c_type zeroed by memset
ZeroView ==
  [size |-> Zero64, data |-> Fill(0, I64(kInlineSize)), prefix |-> <<>>,
   buffer_index |-> 0, offset |-> Zero64]

\* c_type::is_inline()
IsInlineView(v) == Leq64(v.size, I64(kInlineSize))

\* ArraySpan::IsValid(i), i relative to the array's offset
IsValid(arr, i) ==
  arr.buffers[0].id = 0 \/ arr.buffers[0].bits[arr.offset + i + 1]

\* ArraySpan::GetValues<offset_type>(1)[i]
GetOffset(arr, i) == arr.buffers[1].offs[arr.offset + i + 1]

\* ArraySpan::GetValues<BinaryViewType::c_type>(1)[i]
GetViewRecord(arr, i) == arr.buffers[1].views[arr.offset + i + 1]

\* The bytes of slot i as the array visitors hand them to a value callback
GetView(arr, i) ==
  CASE arr.type.layout = "offset" ->
         StrSlice(arr.buffers[2].data, GetOffset(arr, i),
                  Sub64(GetOffset(arr, i + 1), GetOffset(arr, i)))
    [] arr.type.layout = "view" ->
         LET v == GetViewRecord(arr, i)
         IN  IF IsInlineView(v) THEN StrTake(v.data, v.size)
             ELSE StrSlice(arr.buffers[2 + v.buffer_index].data, v.offset, v.size)
    [] arr.type.layout = "fixed" ->
         StrSlice(arr.buffers[1].data,
                  Mul64(I64(arr.type.width), arr.offset + i),
                  I64(arr.type.width))

\* The logical content of an array: per slot, null or a byte string
Slots(arr) ==
  [i \in 1..arr.length |->
     IF IsValid(arr, i - 1) THEN [null |-> FALSE, val |-> GetView(arr, i - 1)]
     ELSE [null |-> TRUE, val |-> <<>>]]

\* ArraySpan::GetNullCount() recomputed from the bitmap
CountNulls(arr) == Cardinality({i \in 0..(arr.length - 1) : ~IsValid(arr, i)})

\* ------------------------------------------------------------------------
\* Source arrays handed to the cast kernels

MaxLen == 2

MaxOff == 1

ValEmpty == <<>>

ValAB == Bytes(<<97, 98>>)

Val12 == Bytes(<<97, 98, 99, 100, 101, 102, 103, 104, 105, 106, 195, 169>>)

Val13 == Bytes(<<110, 111, 112, 113, 114, 115, 116, 117, 118, 119, 120, 121, 122>>)

ValBad == Bytes(<<255, 254>>)

ValHuge == Fill(72, I64(LimbBase))

ValHuge1 == Fill(104, I64(LimbBase - 1))

SlotChoices ==
  [null : {FALSE}, val : {ValEmpty, ValAB, Val12, Val13, ValBad, ValHuge, ValHuge1}]
  \cup [null : {TRUE}, val : {ValEmpty, ValBad, Val13}]

Windows == UNION {[1..n -> SlotChoices] : n \in 0..MaxLen}

HasNull(win) == \E j \in 1..Len(win) : win[j].null

\* The slots of the parent array in front of the window; null exactly when
\* the parent array has a validity bitmap
Lead(S, bitmap) == [j \in 1..S |-> [null |-> bitmap, val |-> ValAB]]

MakeBitmap(all, bitmap) ==
  IF bitmap THEN BitmapBuf(1, [j \in 1..Len(all) |-> ~all[j].null])
  ELSE NoBuffer

RECURSIVE PrefixSums(_, _)
PrefixSums(acc, all) ==
  IF all = <<>> THEN <<acc>>
  ELSE <<acc>> \o PrefixSums(Add64(acc, StrLen(Head(all).val)), Tail(all))

NullsIn(win) == Cardinality({j \in 1..Len(win) : win[j].null})

MakeOffsetArray(bits, utf8, S, win, bitmap) ==
  LET all == Lead(S, bitmap) \o win
  IN  [type |-> OffsetType(bits, utf8), length |-> Len(win), offset |-> S,
       null_count |-> NullsIn(win),
       buffers |-> [k \in 0..2 |->
          CASE k = 0 -> MakeBitmap(all, bitmap)
            [] k = 1 -> OffsetsBuf(2, PrefixSums(Zero64, all))
            [] k = 2 -> DataBuf(3, CatAll([j \in 1..Len(all) |-> all[j].val]))]]

LastOffset(arr) == arr.buffers[1].offs[Len(arr.buffers[1].offs)]

OffsetArrays ==
  {a \in {MakeOffsetArray(t[1], t[2], t[3], t[4], t[5]) :
            t \in {u \in {32, 64} \X BOOLEAN \X (0..MaxOff) \X Windows \X BOOLEAN :
                     u[5] \/ ~HasNull(u[4])}} :
     a.type.bits = 64 \/ Leq64(LastOffset(a), kMaxOffset32)}

\* The variadic data buffer of the view arrays and where each long value
\* lies in it
ViewPool == CatAll(<<Val13, ValHuge, ValHuge1>>)

PoolOffset(v) ==
  CASE v = Val13 -> Zero64
    [] v = ValHuge -> StrLen(Val13)
    [] OTHER -> Add64(StrLen(Val13), StrLen(ValHuge))

IsLong(v) == Lt64(I64(kInlineSize), StrLen(v))

MakeView(v) ==
  IF IsLong(v)
  THEN [size |-> StrLen(v), data |-> <<>>, prefix |-> StrTake(v, I64(kPrefixSize)),
        buffer_index |-> 0, offset |-> PoolOffset(v)]
  ELSE [size |-> StrLen(v),
        data |-> Cat(v, Fill(0, Sub64(I64(kInlineSize), StrLen(v)))),
        prefix |-> <<>>, buffer_index |-> 0, offset |-> Zero64]

MakeViewArray(utf8, S, win, bitmap) ==
  LET all == Lead(S, bitmap) \o win
  IN  [type |-> ViewType(utf8), length |-> Len(win), offset |-> S,
       null_count |-> NullsIn(win),
       buffers |-> [k \in 0..2 |->
          CASE k = 0 -> MakeBitmap(all, bitmap)
            [] k = 1 -> ViewsBuf(2, [j \in 1..Len(all) |-> MakeView(all[j].val)])
            [] k = 2 -> IF \E j \in 1..Len(all) : IsLong(all[j].val)
                        THEN DataBuf(3, ViewPool) ELSE NoBuffer]]

ViewArrays ==
  {MakeViewArray(t[1], t[2], t[3], t[4]) :
     t \in {u \in BOOLEAN \X (0..MaxOff) \X Windows \X BOOLEAN :
              u[4] \/ ~HasNull(u[3])}}

FixedWidths == {2, kInlineSize, kInlineSize + 1, LimbBase}

FixedChoices == [null : BOOLEAN, bad : BOOLEAN]

FixedWindows == UNION {[1..n -> FixedChoices] : n \in 0..MaxLen}

\* The bytes of the slot at absolute index j of a fixed-width array
FixedVal(w, j, bad) ==
  IF w > kInlineSize + 1 THEN Fill(IF bad THEN 255 ELSE 97 + j, I64(w))
  ELSE Bytes([k \in 1..w |-> IF bad /\ k = 1 THEN 255 ELSE 97 + ((5 * j + k) % 26)])

MakeFixedArray(w, S, win, bitmap) ==
  LET all == [j \in 1..S |-> [null |-> bitmap, bad |-> FALSE]] \o win
  IN  [type |-> FixedSizeBinaryType(w), length |-> Len(win), offset |-> S,
       null_count |-> NullsIn(win),
       buffers |-> [k \in 0..2 |->
          CASE k = 0 -> MakeBitmap(all, bitmap)
            [] k = 1 -> DataBuf(2, CatAll([j \in 1..Len(all) |->
                                              FixedVal(w, j, all[j].bad)]))
            [] k = 2 -> NoBuffer]]

FixedArrays ==
  {MakeFixedArray(t[1], t[2], t[3], t[4]) :
     t \in {u \in FixedWidths \X (0..MaxOff) \X FixedWindows \X BOOLEAN :
              u[4] \/ ~HasNull(u[3])}}

NumericType == [layout |-> "numeric", bits |-> 0, utf8 |-> FALSE, width |-> 0]

NumericChoices == [null : BOOLEAN, num : {0, 42, -7}]

NumericWindows == UNION {[1..n -> NumericChoices] : n \in 0..MaxLen}

MakeNumericArray(S, win, bitmap) ==
  LET all == [j \in 1..S |-> [null |-> bitmap, num |-> 1]] \o win
  IN  [type |-> NumericType, length |-> Len(win), offset |-> S,
       null_count |-> NullsIn(win),
       buffers |-> [k \in 0..2 |->
          CASE k = 0 -> MakeBitmap(all, bitmap)
            [] k = 1 -> NumsBuf(2, [j \in 1..Len(all) |-> all[j].num])
            [] k = 2 -> NoBuffer]]

NumericArrays ==
  {MakeNumericArray(t[1], t[2], t[3]) :
     t \in {u \in (0..MaxOff) \X NumericWindows \X BOOLEAN :
              u[3] \/ ~HasNull(u[2])}}

\* TimestampType(unit, timezone); an empty timezone is a naive timestamp
TimestampType(unit, timezone) ==
  [layout |-> "timestamp", bits |-> 0, utf8 |-> FALSE, width |-> 0,
   unit |-> unit, timezone |-> timezone]

TimeUnits == {"SECOND", "MILLI"}

TimeZones == {"", "UTC", "Etc/UTC", "Asia/Kolkata", "America/Phoenix", "Mars/Olympus"}

\* 1609459200 s is 2021-01-01 00:00:00 UTC
TimestampChoices == [null : BOOLEAN, num : {0, -1, 1609459200}]

TimestampWindows == UNION {[1..n -> TimestampChoices] : n \in 0..MaxLen}

MakeTimestampArray(unit, timezone, S, win, bitmap) ==
  LET all == [j \in 1..S |-> [null |-> bitmap, num |-> 1]] \o win
  IN  [type |-> TimestampType(unit, timezone), length |-> Len(win), offset |-> S,
       null_count |-> NullsIn(win),
       buffers |-> [k \in 0..2 |->
          CASE k = 0 -> MakeBitmap(all, bitmap)
            [] k = 1 -> NumsBuf(2, [j \in 1..Len(all) |-> all[j].num])
            [] k = 2 -> NoBuffer]]

TimestampArrays ==
  {MakeTimestampArray(t[1], t[2], t[3], t[4], t[5]) :
     t \in {u \in TimeUnits \X TimeZones \X (0..MaxOff) \X TimestampWindows \X BOOLEAN :
              u[5] \/ ~HasNull(u[4])}}

Inputs ==
  OffsetArrays \cup ViewArrays \cup FixedArrays \cup NumericArrays \cup TimestampArrays

\* ------------------------------------------------------------------------
\* What the kernels are called with and what they call

NoArray ==
  [type |-> [layout |-> "none", bits |-> 0, utf8 |-> FALSE, width |-> 0],
   length |-> 0, offset |-> 0, null_count |-> 0, buffers |-> NoBuffers]

kUnknownNullCount == -1

\* The ArrayData the executor hands to a kernel: the destination type, the
\* batch length, offset 0, and the preallocated fixed-size buffer of the
\* destination layout (offsets, or fixed-width data)
PrepareOutput(input, to_type, id) ==
  [type |-> to_type, length |-> input.length, offset |-> 0,
   null_count |-> kUnknownNullCount,
   buffers |-> [k \in 0..2 |->
      IF k # 1 THEN NoBuffer
      ELSE CASE to_type.layout = "offset" ->
                  OffsetsBuf(id, [j \in 1..(input.length + 1) |-> Zero64])
             [] to_type.layout = "fixed" ->
                  DataBuf(id, Fill(0, Mul64(I64(to_type.width), input.length)))
             [] OTHER -> NoBuffer]]

ZeroCopyCastExec(input, output) ==
  [output EXCEPT !.length = input.length, !.offset = input.offset,
                 !.null_count = input.null_count, !.buffers = input.buffers]

\* arrow::internal::CopyBitmap(pool, bitmap, offset, length)
CopyBitmap(buf, offset, length, id) ==
  BitmapBuf(id, SubSeq(buf.bits, offset + 1, offset + length))

GetOrCopyNullBitmapBuffer(input, id) ==
  IF input.buffers[0].id = 0 THEN NoBuffer
  ELSE IF input.offset = 0 THEN input.buffers[0]
  ELSE CopyBitmap(input.buffers[0], input.offset, input.length, id)

Min(S) == CHOOSE x \in S : \A y \in S : x <= y

\* VisitArraySpanInline / ArraySpanVisitor::Visit: slots in order, the value
\* callback on valid slots, stopping at the first callback that fails.
\* The index of that slot, or -1.
\* failing: the slots whose value the callback rejects.
VisitFirstFail(input, failing) ==
  LET bad == {i \in 0..(input.length - 1) : IsValid(input, i) /\ i \in failing}
  IN  IF bad = {} THEN -1 ELSE Min(bad)

\* The slots whose value reached the value callback
VisitedValues(input, first) ==
  {i \in 0..(input.length - 1) : IsValid(input, i) /\ (first = -1 \/ i <= first)}

\* SetBitRunSlots that ignores the validity bitmap
SetBitRunSlots_m(arr) == 0..(arr.length - 1)

\* VisitSetBitRunsVoid(validity, offset, length, ...): the slots of the runs
SetBitRunSlots(arr) == {i \in 0..(arr.length - 1) : IsValid(arr, i)}

\* Utf8Validator::VisitValue
Utf8ValidatorFails(str) == ~ValidateUTF8Inline(str)

\* NeedsUtf8Guard that does not look at options.allow_invalid_utf8
NeedsUtf8Guard_m(I, O, options) == ~I.utf8 /\ O.utf8

\* if constexpr (!I::is_utf8 && O::is_utf8) if (!options.allow_invalid_utf8)
NeedsUtf8Guard(I, O, options) ==
  ~I.utf8 /\ O.utf8 /\ ~options.allow_invalid_utf8

\* Utf8Guard that does not stop at the first failure: it visits every valid
\* slot and reports the last one that failed
Utf8Guard_m(input, O, options) ==
  IF NeedsUtf8Guard(input.type, O, options)
  THEN LET bad == {i \in SetBitRunSlots(input) : Utf8ValidatorFails(GetView(input, i))}
       IN  [ran |-> TRUE,
            fail |-> IF bad = {} THEN -1 ELSE CHOOSE x \in bad : \A y \in bad : y <= x,
            visited |-> SetBitRunSlots(input)]
  ELSE [ran |-> FALSE, fail |-> -1, visited |-> {}]

\* The UTF-8 pass in front of every kernel
Utf8Guard(input, O, options) ==
  IF NeedsUtf8Guard(input.type, O, options)
  THEN LET f == VisitFirstFail(input,
                  {i \in SetBitRunSlots(input) : Utf8ValidatorFails(GetView(input, i))})
       IN  [ran |-> TRUE, fail |-> f, visited |-> VisitedValues(input, f)]
  ELSE [ran |-> FALSE, fail |-> -1, visited |-> {}]

\* What a kernel returns, with what it did on the way
Result(status, output, g, wrote, fail_slot, log) ==
  [status |-> status, out |-> output, visited |-> g.visited, wrote |-> wrote,
   fail_slot |-> fail_slot,
   log |-> (IF g.ran THEN <<"Utf8Validator">> ELSE <<>>) \o log]

GuardFailed(output, g) == Result("Invalid", output, g, {}, g.fail, <<>>)

AllSlots(arr) == 0..(arr.length - 1)

\* ------------------------------------------------------------------------
\* Offset-width conversion

DowncastOverflows(last) == Lt64(kMaxOffset32, last)

CastInts(input, output, bits, id) ==
  OffsetsBuf(id, [j \in 1..(output.length + output.offset + 1) |->
                    IF j <= output.offset THEN Zero64
                    ELSE CastOffset(bits, GetOffset(input, j - output.offset - 1))])

\* CastBinaryToBinaryOffsets that converts the offsets into a new buffer for
\* equal widths too
CastBinaryToBinaryOffsets_m(I, O, input, output, id) ==
  IF I = 64 /\ O = 32 /\ DowncastOverflows(GetOffset(input, input.length))
  THEN [status |-> "Invalid", out |-> output, log |-> <<>>]
  ELSE [status |-> "OK",
        out |-> [output EXCEPT !.buffers[1] = CastInts(input, output, O, id)],
        log |-> <<"Allocate">>]

CastBinaryToBinaryOffsets(I, O, input, output, id) ==
  IF I = O THEN [status |-> "OK", out |-> output, log |-> <<>>]
  ELSE IF I = 64 /\ DowncastOverflows(GetOffset(input, input.length))
  THEN [status |-> "Invalid", out |-> output, log |-> <<>>]
  ELSE [status |-> "OK",
        out |-> [output EXCEPT !.buffers[1] = CastInts(input, output, O, id)],
        log |-> <<"Allocate">>]

\* ------------------------------------------------------------------------
\* Offset String -> Offset String

OffsetStringToOffsetString(input, options, output, id) ==
  LET g == Utf8Guard(input, options.to_type, options)
  IN  IF g.fail # -1 THEN GuardFailed(output, g)
      ELSE LET zc == ZeroCopyCastExec(input, output)
               r  == CastBinaryToBinaryOffsets(input.type.bits, options.to_type.bits,
                                               input, zc, id)
           IN  Result(r.status, r.out, g, {}, -1, <<"ZeroCopyCastExec">> \o r.log)

\* ------------------------------------------------------------------------
\* String View -> Offset String

RECURSIVE SumOfBinaryViewSizes(_, _)
SumOfBinaryViewSizes(input, i) ==
  IF i = input.length THEN Zero64
  ELSE Add64(GetViewRecord(input, i).size, SumOfBinaryViewSizes(input, i + 1))

\* The per-slot pass over the builders: st.data is data_builder, st.offs is
\* offset_builder
RECURSIVE ViewToOffsetLoop(_, _, _, _)
ViewToOffsetLoop(input, bits, i, st) ==
  IF i = input.length THEN st
  ELSE LET data == IF IsValid(input, i) THEN Cat(st.data, GetView(input, i))
                   ELSE st.data
       IN  ViewToOffsetLoop(input, bits, i + 1,
             [data |-> data,
              offs |-> Append(st.offs, CastOffset(bits, StrLen(data)))])

StringViewToOffsetString(input, options, output, id) ==
  LET g == Utf8Guard(input, options.to_type, options)
  IN  IF g.fail # -1 THEN GuardFailed(output, g)
      ELSE LET st == ViewToOffsetLoop(input, options.to_type.bits, 0,
                                      [data |-> <<>>, offs |-> <<Zero64>>])
               o  == [output EXCEPT
                        !.length = input.length,
                        !.null_count = input.null_count,
                        !.buffers[0] = GetOrCopyNullBitmapBuffer(input, id),
                        !.buffers[1] = OffsetsBuf(id + 1, st.offs),
                        !.buffers[2] = DataBuf(id + 2, st.data)]
           IN  Result("OK", o, g, SetBitRunSlots(input), -1,
                      <<"GetOrCopyNullBitmapBuffer", "Reserve", "Reserve",
                        "UnsafeAppend", "Finish", "Finish">>)

\* ------------------------------------------------------------------------
\* Offset String -> String View

IsInlineLength(data_length) == Leq64(data_length, I64(kInlineSize))

InlineView(size, bytes) ==
  [size |-> size, data |-> Cat(bytes, Fill(0, Sub64(I64(kInlineSize), StrLen(bytes)))),
   prefix |-> <<>>, buffer_index |-> 0, offset |-> Zero64]

RefView(size, prefix, data_offset) ==
  [size |-> size, data |-> <<>>, prefix |-> prefix, buffer_index |-> 0,
   offset |-> data_offset]

\* OffsetToView with the view offset taken relative to the first offset of
\* the array instead of the start of the data buffer
OffsetToView_m(input, i) ==
  LET data_offset == GetOffset(input, i)
      data_length == Sub64(GetOffset(input, i + 1), data_offset)
      input_data  == input.buffers[2].data
  IN  IF IsInlineLength(data_length)
      THEN InlineView(CastInt32(data_length),
                      StrSlice(input_data, data_offset, data_length))
      ELSE RefView(CastInt32(data_length),
                   StrSlice(input_data, data_offset, I64(kPrefixSize)),
                   CastInt32(Sub64(data_offset, GetOffset(input, 0))))

\* The body of the loop over the set-bit runs, for slot i
OffsetToView(input, i) ==
  LET data_offset == GetOffset(input, i)
      data_length == Sub64(GetOffset(input, i + 1), data_offset)
      input_data  == input.buffers[2].data
  IN  IF IsInlineLength(data_length)
      THEN InlineView(CastInt32(data_length),
                      StrSlice(input_data, data_offset, data_length))
      ELSE RefView(CastInt32(data_length),
                   StrSlice(input_data, data_offset, I64(kPrefixSize)),
                   CastInt32(data_offset))

\* all_entries_are_inline after the loop over the set-bit runs
AllEntriesAreInline(input, runs) ==
  \A i \in runs :
     IsInlineLength(Sub64(GetOffset(input, i + 1), GetOffset(input, i)))

ZeroViews(total_length, id) == ViewsBuf(id, [j \in 1..total_length |-> ZeroView])

OffsetStringToStringView(input, options, output, id) ==
  LET g == Utf8Guard(input, options.to_type, options)
  IN  IF g.fail # -1 THEN GuardFailed(output, g)
      ELSE LET zc == ZeroCopyCastExec(input, output)
               total_length == input.offset + input.length
               o1 == [zc EXCEPT !.buffers[1] = ZeroViews(total_length, id)]
           IN  IF input.type.bits > 32 /\ total_length > 0
                  /\ Lt64(kMaxOffset32, GetOffset(input, input.length))
               THEN Result("CapacityError", o1, g, {}, -1,
                           <<"ZeroCopyCastExec", "Allocate">>)
               ELSE LET runs == SetBitRunSlots(o1)
                        all_entries_are_inline == AllEntriesAreInline(input, runs)
                        views == [j \in 1..total_length |->
                                    IF (j - 1 - o1.offset) \in runs
                                    THEN OffsetToView(input, j - 1 - o1.offset)
                                    ELSE ZeroView]
                        o2 == [o1 EXCEPT !.buffers[1] = ViewsBuf(id, views),
                                         !.buffers[2] = IF all_entries_are_inline
                                                        THEN NoBuffer ELSE @]
                    IN  Result("OK", o2, g, runs, -1,
                               <<"ZeroCopyCastExec", "Allocate", "write_views">>)

\* ------------------------------------------------------------------------
\* String View -> String View

StringViewToStringView(input, options, output, id) ==
  LET g == Utf8Guard(input, options.to_type, options)
  IN  IF g.fail # -1 THEN GuardFailed(output, g)
      ELSE Result("OK", ZeroCopyCastExec(input, output), g, {}, -1,
                  <<"ZeroCopyCastExec">>)

\* ------------------------------------------------------------------------
\* Fixed -> String View

\* IsInlineWidth with the threshold itself stored by reference
IsInlineWidth_m(fixed_size_width) == fixed_size_width < kInlineSize

IsInlineWidth(fixed_size_width) == fixed_size_width <= kInlineSize

\* data_offset in iteration i of either loop
FixedDataOffset(input, i) ==
  CastInt32(Mul64(I64(input.type.width), input.offset + i))

FixedToView(input, i) ==
  LET w == input.type.width
      data == input.buffers[1].data
  IN  IF IsInlineWidth(w)
      THEN InlineView(I64(w), StrSlice(data, FixedDataOffset(input, i), I64(w)))
      ELSE RefView(I64(w), StrSlice(data, FixedDataOffset(input, i), I64(kPrefixSize)),
                   FixedDataOffset(input, i))

FixedToStringView(input, options, output, id) ==
  LET g == Utf8Guard(input, options.to_type, options)
  IN  IF g.fail # -1 THEN GuardFailed(output, g)
      ELSE LET w == input.type.width
               total_length == input.offset + input.length
               o1 == [output EXCEPT !.offset = input.offset,
                                    !.null_count = input.null_count,
                                    !.buffers[0] = input.buffers[0],
                                    !.buffers[1] = ZeroViews(total_length, id)]
           IN  IF total_length > 0
                  /\ Lt64(kMaxOffset32, Mul64(I64(w), total_length - 1))
               THEN Result("CapacityError", o1, g, {}, -1, <<"Allocate">>)
               ELSE LET views == [j \in 1..total_length |->
                                    IF (j - 1 - o1.offset) \in AllSlots(input)
                                    THEN FixedToView(input, j - 1 - o1.offset)
                                    ELSE ZeroView]
                        o2 == [o1 EXCEPT !.buffers[1] = ViewsBuf(id, views),
                                         !.buffers[2] = IF IsInlineWidth(w) THEN @
                                                        ELSE input.buffers[1]]
                    IN  Result("OK", o2, g, AllSlots(input), -1,
                               <<"Allocate", "write_views">>)

\* ------------------------------------------------------------------------
\* Fixed -> Offset String

\* max_offset > kMaxOffset, for kMaxOffset the maximum of the offset type
FixedOverflows(bits, max_offset) == bits = 32 /\ Lt64(kMaxOffset32, max_offset)

\* What a signed overflow of offsets[i] + width does
UBChoices == {"wrap", "trap"}

\* offsets[0 .. n] as written by the loop, and whether the run trapped
RECURSIVE FixedOffsets(_, _, _, _, _)
FixedOffsets(bits, w, n, offs, ub) ==
  IF Len(offs) = n + 1 THEN [offs |-> offs, trapped |-> FALSE]
  ELSE LET next == Add64(offs[Len(offs)], I64(w))
       IN  IF bits = 32 /\ ~FitsInt32(next)
           THEN IF ub = "trap" THEN [offs |-> offs, trapped |-> TRUE]
                ELSE FixedOffsets(bits, w, n, Append(offs, CastInt32(next)), ub)
           ELSE FixedOffsets(bits, w, n, Append(offs, next), ub)

\* FixedValidity that copies the bitmap from bit 0 instead of from the
\* source offset
FixedValidityUnaligned_m(input, output, id) ==
  IF input.offset = output.offset THEN input.buffers[0]
  ELSE IF input.buffers[0].id # 0
       THEN CopyBitmap(input.buffers[0], 0, input.length, id)
       ELSE output.buffers[0]

\* FixedValidity that shares the bitmap whatever the offsets are
FixedValidity_m(input, output, id) == input.buffers[0]

FixedValidity(input, output, id) ==
  IF input.offset = output.offset THEN input.buffers[0]
  ELSE IF input.buffers[0].id # 0
       THEN CopyBitmap(input.buffers[0], input.offset, input.length, id)
       ELSE output.buffers[0]

\* Buffer::CopySlice(0, size, pool)
CopySlice(buf, id) == DataBuf(id, buf.data)

FixedToOffsetString(input, options, output, id, ub) ==
  LET g == Utf8Guard(input, options.to_type, options)
      bits == options.to_type.bits
      width == input.type.width
  IN  IF g.fail # -1 THEN GuardFailed(output, g)
      ELSE IF FixedOverflows(bits, Mul64(I64(width), input.length))
      THEN Result("Invalid", output, g, {}, -1, <<>>)
      ELSE LET o1 == [output EXCEPT !.length = input.length,
                                    !.null_count = input.null_count,
                                    !.buffers[0] = FixedValidity(input, output, id)]
               f  == FixedOffsets(bits, width, input.length,
                                  <<CastOffset(bits, Mul64(I64(width), input.offset))>>,
                                  ub)
               pre == output.buffers[1].offs
               o2 == [o1 EXCEPT !.buffers[1].offs =
                        [j \in 1..Len(pre) |->
                           IF j - output.offset \in 1..Len(f.offs)
                           THEN f.offs[j - output.offset] ELSE pre[j]]]
               o3 == [o2 EXCEPT !.buffers[2] =
                        IF input.buffers[1].id # 0
                        THEN CopySlice(input.buffers[1], id + 1) ELSE NoBuffer]
           IN  IF f.trapped
               THEN Result("Crashed", o2, g, {}, -1, <<"CopyBitmap", "write_offsets">>)
               ELSE Result("OK", o3, g, AllSlots(input), -1,
                           <<"CopyBitmap", "write_offsets", "CopySlice">>)

\* ------------------------------------------------------------------------
\* Fixed -> Fixed

NoGuard == [ran |-> FALSE, fail |-> -1, visited |-> {}]

\* FixedToFixed that only rejects a destination wider than the source
FixedToFixed_m(input, options, output, id) ==
  IF input.type.width < options.to_type.width
  THEN Result("Invalid", output, NoGuard, {}, -1, <<>>)
  ELSE Result("OK", ZeroCopyCastExec(input, output), NoGuard, {}, -1,
              <<"ZeroCopyCastExec">>)

FixedToFixed(input, options, output, id) ==
  IF input.type.width # options.to_type.width
  THEN Result("Invalid", output, NoGuard, {}, -1, <<>>)
  ELSE Result("OK", ZeroCopyCastExec(input, output), NoGuard, {}, -1,
              <<"ZeroCopyCastExec">>)

\* ------------------------------------------------------------------------
\* Offset String | String View -> Fixed

\* WidthMismatch that only rejects values longer than the width
WidthMismatch_m(v, byte_width) == Lt64(I64(byte_width), StrLen(v))

\* v.size() != static_cast<size_t>(builder.byte_width())
WidthMismatch(v, byte_width) == StrLen(v) # I64(byte_width)

\* FixedSizeBinaryBuilder: UnsafeAppend / UnsafeAppendNull per slot, then
\* FinishInternal
FixedSizeBinaryBuilderFinish(input, to_type, id) ==
  [type |-> to_type, length |-> input.length, offset |-> 0,
   null_count |-> CountNulls(input),
   buffers |-> [k \in 0..2 |->
      CASE k = 0 -> BitmapBuf(id, [j \in 1..input.length |-> IsValid(input, j - 1)])
        [] k = 1 -> DataBuf(id + 1, CatAll([j \in 1..input.length |->
                       IF IsValid(input, j - 1) THEN GetView(input, j - 1)
                       ELSE Fill(0, I64(to_type.width))]))
        [] k = 2 -> NoBuffer]]

BinaryToFixed(input, options, output, id) ==
  LET w == options.to_type.width
      first == VisitFirstFail(input,
                 {i \in SetBitRunSlots(input) : WidthMismatch(GetView(input, i), w)})
      seen == VisitedValues(input, first)
  IN  IF first # -1
      THEN [Result("Invalid", output, NoGuard, seen \ {first}, first,
                   <<"Reserve", "UnsafeAppend">>) EXCEPT !.visited = seen]
      ELSE [Result("OK", FixedSizeBinaryBuilderFinish(input, options.to_type, id),
                   NoGuard, seen, -1, <<"Reserve", "UnsafeAppend", "FinishInternal">>)
              EXCEPT !.visited = seen]

\* ------------------------------------------------------------------------
\* Number to String

RECURSIVE Digits(_)
Digits(n) == IF n < 10 THEN <<48 + n>> ELSE Append(Digits(n \div 10), 48 + (n % 10))

\* StringFormatter<I>: the decimal text of an integer
StringFormatter(v) == Bytes(IF v < 0 THEN <<45>> \o Digits(0 - v) ELSE Digits(v))

\* What the formatter's callback appends for slot i, nothing for a null
Formatted(input, i) ==
  IF IsValid(input, i) THEN StringFormatter(input.buffers[1].nums[input.offset + i + 1])
  ELSE <<>>

RECURSIVE BuilderOffsets(_, _, _)
BuilderOffsets(input, i, offs) ==
  IF i = input.length THEN offs
  ELSE BuilderOffsets(input, i + 1,
         Append(offs, Add64(offs[Len(offs)], StrLen(Formatted(input, i)))))

\* builder.Finish(&output_array) after Append / AppendNull per slot
BuilderFinish(input, to_type, id) ==
  [type |-> to_type, length |-> input.length, offset |-> 0,
   null_count |-> CountNulls(input),
   buffers |-> [k \in 0..2 |->
      CASE k = 0 -> BitmapBuf(id, [j \in 1..input.length |-> IsValid(input, j - 1)])
        [] k = 1 -> IF to_type.layout = "view"
                    THEN ViewsBuf(id + 1, [j \in 1..input.length |->
                           InlineView(StrLen(Formatted(input, j - 1)),
                                      Formatted(input, j - 1))])
                    ELSE OffsetsBuf(id + 1, BuilderOffsets(input, 0, <<Zero64>>))
        [] k = 2 -> IF to_type.layout = "view" THEN NoBuffer
                    ELSE DataBuf(id + 2, CatAll([j \in 1..input.length |->
                                                  Formatted(input, j - 1)]))]]

NumericToStringCastFunctor(input, options, output, id) ==
  [Result("OK", BuilderFinish(input, options.to_type, id), NoGuard,
          SetBitRunSlots(input), -1, <<"Append", "Finish">>)
     EXCEPT !.visited = SetBitRunSlots(input)]

\* ------------------------------------------------------------------------
\* Timestamp to String

Pad2(n) == <<48 + (n \div 10), 48 + (n % 10)>>

Pad3(n) == <<48 + (n \div 100)>> \o Pad2(n % 100)

Pad4(n) == Pad2(n \div 100) \o Pad2(n % 100)

\* The ticks of one second in a unit
TicksPerSecond(unit) == IF unit = "MILLI" THEN 1000 ELSE 1

\* Year, month and day of the day that lies z days after 0000-03-01
CivilFromDays(z) ==
  LET era == z \div 146097
      doe == z - era * 146097
      yoe == (doe - doe \div 1460 + doe \div 36524 - doe \div 146096) \div 365
      doy == doe - (365 * yoe + yoe \div 4 - yoe \div 100)
      mp  == (5 * doy + 2) \div 153
      m   == IF mp < 10 THEN mp + 3 ELSE mp - 9
  IN  [y |-> yoe + era * 400 + (IF m <= 2 THEN 1 ELSE 0), m |-> m,
       d |-> doy - (153 * mp + 2) \div 5 + 1]

\* "%Y-%m-%d %H:%M:%S" of the civil time t ticks after the epoch, with the
\* fraction of the unit
FormatCivil(unit, t) ==
  LET tps  == TicksPerSecond(unit)
      secs == t \div tps
      days == secs \div 86400
      sod  == secs % 86400
      c    == CivilFromDays(days + 719468)
  IN  Pad4(c.y) \o <<45>> \o Pad2(c.m) \o <<45>> \o Pad2(c.d) \o <<32>>
      \o Pad2(sod \div 3600) \o <<58>> \o Pad2((sod % 3600) \div 60) \o <<58>>
      \o Pad2(sod % 60)
      \o (IF unit = "MILLI" THEN <<46>> \o Pad3(t % tps) ELSE <<>>)

\* StringFormatter<TimestampType>: the naive civil form of an instant
StringFormatterTimestamp(unit, v) == Bytes(FormatCivil(unit, v))

\* LocateZone(timezone): the zone of the time zone database, as its offset
\* from UTC in seconds, or an error for a name the database does not have
LocateZone(timezone) ==
  CASE timezone \in {"UTC", "Etc/UTC"} -> [ok |-> TRUE, utc_offset |-> 0]
    [] timezone = "Asia/Kolkata" -> [ok |-> TRUE, utc_offset |-> 19800]
    [] timezone = "America/Phoenix" -> [ok |-> TRUE, utc_offset |-> -25200]
    [] OTHER -> [ok |-> FALSE, utc_offset |-> 0]

kFormatString == "%Y-%m-%d %H:%M:%S%z"

kUtcFormatString == "%Y-%m-%d %H:%M:%SZ"

\* "%z": the sign and the hours and minutes of the offset
FormatOffset(utc_offset) ==
  LET a == IF utc_offset < 0 THEN 0 - utc_offset ELSE utc_offset
  IN  <<IF utc_offset < 0 THEN 45 ELSE 43>> \o Pad2(a \div 3600)
      \o Pad2((a % 3600) \div 60)

\* TimestampFormatter<Duration>{format, tz, locale}(v)
TimestampFormatter(format, tz, unit, v) ==
  Bytes(FormatCivil(unit, v + tz.utc_offset * TicksPerSecond(unit))
        \o (IF format = kUtcFormatString THEN <<90>> ELSE FormatOffset(tz.utc_offset)))

\* SelectFormat that gives every zone the offset suffix
SelectFormat_m(timezone) == kFormatString

\* timezone == "UTC" ? kUtcFormatString : kFormatString
SelectFormat(timezone) ==
  IF timezone = "UTC" THEN kUtcFormatString ELSE kFormatString

\* The value of slot i
TimestampValue(input, i) == input.buffers[1].nums[input.offset + i + 1]

RECURSIVE TextOffsets(_, _)
TextOffsets(texts, offs) ==
  IF Len(offs) = Len(texts) + 1 THEN offs
  ELSE TextOffsets(texts, Append(offs, Add64(offs[Len(offs)],
                                             StrLen(texts[Len(offs)]))))

\* The texts too long for an inline view, empty for the others
LongTexts(texts) ==
  [j \in 1..Len(texts) |-> IF IsInlineLength(StrLen(texts[j])) THEN <<>> ELSE texts[j]]

\* BuilderType::Finish after Append / UnsafeAppendNull per slot; texts[j]
\* is what was appended for slot j-1
TextBuilderFinish(input, texts, to_type, id) ==
  [type |-> to_type, length |-> input.length, offset |-> 0,
   null_count |-> CountNulls(input),
   buffers |-> [k \in 0..2 |->
      CASE k = 0 -> BitmapBuf(id, [j \in 1..input.length |-> IsValid(input, j - 1)])
        [] k = 1 -> IF to_type.layout = "view"
                    THEN ViewsBuf(id + 1, [j \in 1..input.length |->
                           IF ~IsValid(input, j - 1) THEN ZeroView
                           ELSE IF IsInlineLength(StrLen(texts[j]))
                           THEN InlineView(StrLen(texts[j]), texts[j])
                           ELSE RefView(StrLen(texts[j]),
                                        StrTake(texts[j], I64(kPrefixSize)),
                                        TextOffsets(LongTexts(texts), <<Zero64>>)[j])])
                    ELSE OffsetsBuf(id + 1, TextOffsets(texts, <<Zero64>>))
        [] k = 2 -> IF to_type.layout = "view"
                    THEN DataBuf(id + 2, CatAll(LongTexts(texts)))
                    ELSE DataBuf(id + 2, CatAll(texts))]]

\* ConvertZoned<Duration>: what is appended per slot, or the error of
\* LocateZone
ConvertZoned(input, timezone) ==
  LET tz == LocateZone(timezone)
  IN  IF ~tz.ok THEN [ok |-> FALSE, texts |-> <<>>]
      ELSE [ok |-> TRUE,
            texts |-> [j \in 1..input.length |->
               IF IsValid(input, j - 1)
               THEN TimestampFormatter(SelectFormat(timezone), tz, input.type.unit,
                                       TimestampValue(input, j - 1))
               ELSE <<>>]]

TimestampToStringCastFunctor(input, options, output, id) ==
  LET timezone == input.type.timezone
      r == IF timezone = ""
           THEN [ok |-> TRUE,
                 texts |-> [j \in 1..input.length |->
                    IF IsValid(input, j - 1)
                    THEN StringFormatterTimestamp(input.type.unit,
                                                  TimestampValue(input, j - 1))
                    ELSE <<>>]]
           ELSE ConvertZoned(input, timezone)
  IN  IF ~r.ok
      THEN Result("Invalid", output, NoGuard, {}, -1,
                  <<"Reserve", "ReserveData", "LocateZone">>)
      ELSE [Result("OK", TextBuilderFinish(input, r.texts, options.to_type, id),
                   NoGuard, SetBitRunSlots(input), -1,
                   <<"Reserve", "ReserveData"
                   >> \o (IF timezone = "" THEN <<>> ELSE <<"LocateZone">>)
                      \o <<"Append", "Finish">>)
              EXCEPT !.visited = SetBitRunSlots(input)]

\* ------------------------------------------------------------------------
\* The casts as a state machine: a caller holds an array, casts it once,
\* and may cast the result of an Offset -> View cast again.

VARIABLES input, options, out, status, pc, hist, orig, visited, wrote,
          fail_slot, log, allocs

vars == <<input, options, out, status, pc, hist, orig, visited, wrote,
          fail_slot, log, allocs>>

NoOptions == [allow_invalid_utf8 |-> FALSE, to_type |-> NoArray.type]

OffsetDestTypes == {OffsetType(b, u) : b \in {32, 64}, u \in BOOLEAN}

ViewDestTypes == {ViewType(u) : u \in BOOLEAN}

FixedDestTypes == {FixedSizeBinaryType(w) : w \in {2, kInlineSize + 1}}

CastOptions(types) == [allow_invalid_utf8 : BOOLEAN, to_type : types]

Init ==
  /\ input \in Inputs
  /\ orig = input
  /\ options = NoOptions
  /\ out = NoArray
  /\ status = "none"
  /\ pc = "ready"
  /\ hist = <<>>
  /\ visited = {}
  /\ wrote = {}
  /\ fail_slot = -1
  /\ log = <<>>
  /\ allocs = 3

\* One kernel call: the executor prepares the output, the kernel runs
Call(name, opts, r) ==
  /\ options' = opts
  /\ out' = r.out
  /\ status' = r.status
  /\ visited' = r.visited
  /\ wrote' = r.wrote
  /\ fail_slot' = r.fail_slot
  /\ log' = r.log
  /\ hist' = Append(hist, name)
  /\ pc' = "done"
  /\ allocs' = allocs + 4
  /\ UNCHANGED <<input, orig>>

CastOffsetToOffset ==
  /\ pc = "ready" /\ input.type.layout = "offset"
  /\ \E opts \in CastOptions(OffsetDestTypes) :
       Call("OffsetToOffset", opts,
            OffsetStringToOffsetString(input, opts,
              PrepareOutput(input, opts.to_type, allocs + 1), allocs + 2))

CastViewToOffset ==
  /\ pc = "ready" /\ input.type.layout = "view"
  /\ \E opts \in CastOptions(OffsetDestTypes) :
       Call("ViewToOffset", opts,
            StringViewToOffsetString(input, opts,
              PrepareOutput(input, opts.to_type, allocs + 1), allocs + 2))

CastOffsetToView ==
  /\ pc = "ready" /\ input.type.layout = "offset"
  /\ \E opts \in CastOptions(ViewDestTypes) :
       Call("OffsetToView", opts,
            OffsetStringToStringView(input, opts,
              PrepareOutput(input, opts.to_type, allocs + 1), allocs + 2))

CastViewToView ==
  /\ pc = "ready" /\ input.type.layout = "view"
  /\ \E opts \in CastOptions(ViewDestTypes) :
       Call("ViewToView", opts,
            StringViewToStringView(input, opts,
              PrepareOutput(input, opts.to_type, allocs + 1), allocs + 2))

CastFixedToView ==
  /\ pc = "ready" /\ input.type.layout = "fixed"
  /\ \E opts \in CastOptions(ViewDestTypes) :
       Call("FixedToView", opts,
            FixedToStringView(input, opts,
              PrepareOutput(input, opts.to_type, allocs + 1), allocs + 2))

CastFixedToOffset ==
  /\ pc = "ready" /\ input.type.layout = "fixed"
  /\ \E opts \in CastOptions(OffsetDestTypes), ub \in UBChoices :
       Call("FixedToOffset", opts,
            FixedToOffsetString(input, opts,
              PrepareOutput(input, opts.to_type, allocs + 1), allocs + 2, ub))

CastFixedToFixed ==
  /\ pc = "ready" /\ input.type.layout = "fixed"
  /\ \E opts \in CastOptions(FixedDestTypes) :
       Call("FixedToFixed", opts,
            FixedToFixed(input, opts,
              PrepareOutput(input, opts.to_type, allocs + 1), allocs + 2))

CastBinaryToFixed ==
  /\ pc = "ready" /\ input.type.layout \in {"offset", "view"}
  /\ \E opts \in CastOptions(FixedDestTypes) :
       Call("BinaryToFixed", opts,
            BinaryToFixed(input, opts,
              PrepareOutput(input, opts.to_type, allocs + 1), allocs + 2))

CastNumericToString ==
  /\ pc = "ready" /\ input.type.layout = "numeric"
  /\ \E opts \in CastOptions({OffsetType(32, TRUE), OffsetType(64, TRUE),
                               ViewType(TRUE)}) :
       Call("NumericToString", opts,
            NumericToStringCastFunctor(input, opts,
              PrepareOutput(input, opts.to_type, allocs + 1), allocs + 2))

CastTimestampToString ==
  /\ pc = "ready" /\ input.type.layout = "timestamp"
  /\ \E opts \in CastOptions({OffsetType(32, TRUE), OffsetType(64, TRUE),
                               ViewType(TRUE)}) :
       Call("TimestampToString", opts,
            TimestampToStringCastFunctor(input, opts,
              PrepareOutput(input, opts.to_type, allocs + 1), allocs + 2))

\* The caller feeds the view array it got from an offset array to a
\* second cast
Recast ==
  /\ pc = "done" /\ status = "OK" /\ hist = <<"OffsetToView">>
  /\ input' = out
  /\ pc' = "ready"
  /\ UNCHANGED <<options, out, status, hist, orig, visited, wrote, fail_slot,
                 log, allocs>>

Next ==
  \/ CastOffsetToOffset
  \/ CastViewToOffset
  \/ CastOffsetToView
  \/ CastViewToView
  \/ CastFixedToView
  \/ CastFixedToOffset
  \/ CastFixedToFixed
  \/ CastBinaryToFixed
  \/ CastNumericToString
  \/ CastTimestampToString
  \/ Recast

Spec == Init /\ [][Next]_vars

\* ------------------------------------------------------------------------
\* Claims

\* C1: an offset array cast to a view array and the result cast back to an
\* offset array of the same offset width has the same length, the same
\* null pattern and, in every non-null slot, the same bytes.
C1_RoundTrip ==
  (pc = "done" /\ status = "OK" /\ hist = <<"OffsetToView", "ViewToOffset">>
     /\ options.to_type.bits = orig.type.bits)
  => /\ out.length = orig.length
     /\ Slots(out) = Slots(orig)

C1_Witness ==
  /\ pc = "done" /\ status = "OK" /\ hist = <<"OffsetToView", "ViewToOffset">>
  /\ options.to_type.bits = orig.type.bits
  /\ orig.offset > 0 /\ orig.length = 2
  /\ Slots(orig)[1].null
  /\ ~Slots(orig)[2].null /\ Slots(orig)[2].val = Val13

\* C2: narrowing 64-bit offsets to 32-bit offsets fails with CapacityError
\* when the final source offset is above the 32-bit maximum and succeeds
\* when it is at or below it.
C2_NarrowingCapacityError ==
  (pc = "done" /\ hist = <<"OffsetToOffset">> /\ fail_slot = -1
     /\ input.type.bits = 64 /\ options.to_type.bits = 32)
  => IF Lt64(kMaxOffset32, GetOffset(input, input.length))
     THEN status = "CapacityError"
     ELSE status = "OK"

\* The byte position after the non-null slots 0 .. i-1 of a view array
RECURSIVE RunningTotal(_, _)
RunningTotal(arr, i) ==
  IF i = 0 THEN Zero64
  ELSE Add64(RunningTotal(arr, i - 1),
             IF IsValid(arr, i - 1) THEN GetViewRecord(arr, i - 1).size ELSE Zero64)

\* C3: a view array cast to 32-bit offsets fails with a capacity error when
\* the running total of the non-null byte lengths exceeds the 32-bit
\* maximum, and a successful cast has every offset at the true position.
C3_NoSilentWrap ==
  (pc = "done" /\ hist[Len(hist)] = "ViewToOffset" /\ fail_slot = -1
     /\ options.to_type.bits = 32)
  => /\ Lt64(kMaxOffset32, RunningTotal(input, input.length))
          => status = "CapacityError"
     /\ status = "OK"
          => \A i \in 0..input.length : GetOffset(out, i) = RunningTotal(input, i)

\* C4: a fixed-width array of width W, length N and start offset S cast to
\* an offset layout gets offsets S*W + i*W, and the cast fails before any
\* offset is written when (S+N)*W exceeds the offset type's maximum.
C4_FixedOffsets ==
  (pc = "done" /\ hist = <<"FixedToOffset">> /\ fail_slot = -1)
  => LET W == I64(input.type.width)
         largest == Mul64(W, input.offset + input.length)
     IN  /\ status = "OK"
              => \A i \in 0..input.length :
                    GetOffset(out, i) = Mul64(W, input.offset + i)
         /\ (options.to_type.bits = 32 /\ Lt64(kMaxOffset32, largest))
              => /\ status \in {"Invalid", "CapacityError"}
                 /\ \A i \in 0..input.length : GetOffset(out, i) = Zero64

\* C5: a cast to fixed width W fails with Invalid exactly when some
\* non-null slot has another length than W, at the first such slot and
\* without looking at later slots; null slots never fail it; without such a
\* slot the result has the same nulls and the same bytes.
C5_WidthMismatch ==
  (pc = "done" /\ hist[Len(hist)] = "BinaryToFixed")
  => LET W == I64(options.to_type.width)
         src == Slots(input)
         bad == {i \in 1..input.length : ~src[i].null /\ StrLen(src[i].val) # W}
     IN  /\ status = "Invalid" <=> bad # {}
         /\ bad # {} => /\ fail_slot + 1 \in bad
                        /\ \A j \in bad : fail_slot + 1 <= j
                        /\ \A i \in visited : i <= fail_slot
         /\ bad = {} => /\ status = "OK"
                        /\ out.length = input.length
                        /\ \A i \in 1..input.length :
                             Slots(out)[i].null = src[i].null
                             /\ (~src[i].null => Slots(out)[i].val = src[i].val)

C5_Witness ==
  /\ pc = "done" /\ hist = <<"BinaryToFixed">> /\ status = "Invalid"
  /\ options.to_type.width = 2
  /\ input.length = 2
  /\ Slots(input)[1] = [null |-> FALSE, val |-> ValAB]
  /\ fail_slot = 1

\* The cast just made goes from a binary type that is not UTF-8 to a type
\* that is
BinaryToUtf8 ==
  /\ pc = "done" /\ Len(hist) = 1
  /\ input.type.layout \in {"offset", "view", "fixed"}
  /\ ~input.type.utf8 /\ options.to_type.utf8

IllFormed(arr) ==
  {i \in 1..arr.length :
     ~Slots(arr)[i].null /\ ~ValidateUTF8Inline(Slots(arr)[i].val)}

SameSlots(a, b) == a.length = b.length /\ Slots(a) = Slots(b)

\* C6: a cast from a binary type to a UTF-8 type with allow_invalid_utf8
\* false fails with Invalid exactly when a non-null slot is not well-formed
\* UTF-8; with allow_invalid_utf8 true it does not fail so and keeps every
\* slot's bytes; bytes under a null slot never matter.
C6_Utf8Gate ==
  BinaryToUtf8
  => IF ~options.allow_invalid_utf8
     THEN status = "Invalid" <=> IllFormed(input) # {}
     ELSE status # "Invalid" /\ (status = "OK" => SameSlots(out, input))

NullSlots(arr) == {i \in 0..(arr.length - 1) : ~IsValid(arr, i)}

\* C7: in every conversion a null source slot gives a null destination
\* slot, no validator or formatter is invoked on it and no bytes are
\* written for it.
C7_NullPropagation ==
  pc = "done"
  => \A i \in NullSlots(input) :
        /\ status = "OK" => ~IsValid(out, i)
        /\ i \notin visited
        /\ i \notin wrote

\* What the destination holds in the place of null slot i after a kernel
\* that builds its data slot by slot
NullSlotLeftEmpty(i) ==
  CASE hist[Len(hist)] = "OffsetToView" -> GetViewRecord(out, i) = ZeroView
    [] hist[Len(hist)] = "ViewToOffset" -> GetOffset(out, i + 1) = GetOffset(out, i)
    [] hist[Len(hist)] = "BinaryToFixed" ->
         StrSlice(out.buffers[1].data, Mul64(I64(out.type.width), out.offset + i),
                  I64(out.type.width)) = Fill(0, I64(out.type.width))
    [] hist[Len(hist)] \in {"NumericToString", "TimestampToString"} ->
         IF out.type.layout = "view" THEN GetViewRecord(out, i) = ZeroView
         ELSE GetOffset(out, i + 1) = GetOffset(out, i)
    [] OTHER -> TRUE

\* C7 as amended: a null source slot gives a null destination slot and no
\* validator or formatter is invoked on it; Offset -> View, View -> Offset,
\* (Offset | View) -> Fixed and the number renderer copy none of its bytes
\* (a zeroed view, an empty span, W zero bytes); Fixed -> View and
\* Fixed -> Offset copy the bytes of every slot, null or not.
C7_NullPropagationAmended ==
  pc = "done"
  => \A i \in NullSlots(input) :
        /\ status = "OK" => ~IsValid(out, i)
        /\ i \notin visited
        /\ hist[Len(hist)] \notin {"FixedToView", "FixedToOffset"} => i \notin wrote
        /\ status = "OK" => NullSlotLeftEmpty(i)
        /\ (status = "OK" /\ hist[Len(hist)] \in {"FixedToView", "FixedToOffset"})
             => i \in wrote
        /\ (status = "OK" /\ hist[Len(hist)] = "FixedToView")
             => GetViewRecord(out, i).size = I64(input.type.width)

C7_Witness ==
  /\ pc = "done" /\ status = "OK" /\ hist = <<"FixedToView">>
  /\ input.type.width = 2
  /\ \E i \in NullSlots(input) :
        /\ ~IsValid(out, i)
        /\ GetViewRecord(out, i) # ZeroView

\* C8: a successful conversion returns an array with the length, the null
\* count and the null positions of its source.
C8_Cardinality ==
  (pc = "done" /\ status = "OK")
  => /\ out.length = input.length
     /\ out.null_count = input.null_count
     /\ CountNulls(out) = CountNulls(input)
     /\ \A i \in 0..(input.length - 1) : IsValid(out, i) = IsValid(input, i)

C8_Witness ==
  /\ pc = "done" /\ status = "OK" /\ hist = <<"FixedToOffset">>
  /\ input.offset = 1 /\ input.length = 2
  /\ ~IsValid(input, 0) /\ IsValid(input, 1)
  /\ out.length = 2 /\ out.null_count = 1

\* C9: Fixed -> View of width W gives, for every slot, an inline view with
\* the slot's W bytes and no buffer reference when W <= 12, and a reference
\* view of size W with the slot's first 4 bytes as prefix, buffer index 0
\* and offset (start + i) * W into the shared source data buffer when
\* W >= 13.
C9_InlineBoundary ==
  (pc = "done" /\ status = "OK" /\ hist = <<"FixedToView">>)
  => \A i \in 0..(input.length - 1) :
        LET v == GetViewRecord(out, i)
            W == I64(input.type.width)
            pos == Mul64(W, input.offset + i)
            bytes == StrSlice(input.buffers[1].data, pos, W)
        IN  /\ v.size = W
            /\ input.type.width <= kInlineSize
                 => /\ StrTake(v.data, W) = bytes
                    /\ v.prefix = <<>> /\ v.buffer_index = 0 /\ v.offset = Zero64
            /\ input.type.width >= kInlineSize + 1
                 => /\ v.prefix = StrTake(bytes, I64(kPrefixSize))
                    /\ v.buffer_index = 0
                    /\ v.offset = pos
                    /\ v.data = <<>>
                    /\ out.buffers[2] = input.buffers[1]

C9_Witness ==
  /\ pc = "done" /\ status = "OK" /\ hist = <<"FixedToView">>
  /\ input.type.width = kInlineSize + 1
  /\ input.offset = 1 /\ input.length = 2
  /\ GetViewRecord(out, 1).offset = I64(2 * (kInlineSize + 1))

\* C10: after a successful Offset -> View or Fixed -> View the destination
\* has no external data buffer exactly when it has no reference view.
C10_DataBufferDrop ==
  (pc = "done" /\ status = "OK" /\ hist[Len(hist)] \in {"OffsetToView", "FixedToView"})
  => (out.buffers[2].id = 0
        <=> \A i \in 0..(out.length - 1) : IsInlineView(GetViewRecord(out, i)))

\* The buffer handles an array holds
BufferIds(arr) == {arr.buffers[k].id : k \in 0..2} \ {0}

\* The cast just made is a same-width Offset -> Offset or a View -> View
\* whose UTF-8 pass is disabled or unnecessary
ZeroCopyCase ==
  /\ pc = "done"
  /\ \/ hist[Len(hist)] = "OffsetToOffset" /\ options.to_type.bits = input.type.bits
     \/ hist[Len(hist)] = "ViewToView"
  /\ ~NeedsUtf8Guard(input.type, options.to_type, options)

\* C11: a same-width Offset -> Offset and a View -> View whose UTF-8 pass is
\* disabled or unnecessary succeed with the destination holding the very
\* buffers of the source (validity, offsets or views, data) and allocate
\* nothing.
C11_ZeroCopySharing ==
  ZeroCopyCase
  => /\ status = "OK"
     /\ \A k \in 0..2 : out.buffers[k] = input.buffers[k]
     /\ out.buffers[1].id = input.buffers[1].id
     /\ out.buffers[2].id = input.buffers[2].id
     /\ BufferIds(out) \subseteq BufferIds(input)
     /\ \A j \in 1..Len(log) : log[j] \notin {"Allocate", "Reserve", "CopySlice", "CopyBitmap"}
     /\ out.offset = input.offset /\ out.length = input.length

C11_Witness ==
  /\ ZeroCopyCase /\ status = "OK"
  /\ hist = <<"OffsetToOffset">>
  /\ ~input.type.utf8 /\ options.to_type.utf8 /\ options.allow_invalid_utf8
  /\ input.offset = 1 /\ input.length = 2
  /\ out.buffers[1].id = 2 /\ out.buffers[2].id = 3

\* The destination array as the executor handed it to the kernel call just
\* made
PreCall == PrepareOutput(input, options.to_type, allocs - 3)

Failed == pc = "done" /\ status \in {"Invalid", "CapacityError"}

\* The first slot of the source that violates what the cast just made
\* checks per slot, or -1
FirstViolation ==
  LET W == I64(options.to_type.width)
      bad == IF hist[Len(hist)] = "BinaryToFixed"
             THEN {i \in 0..(input.length - 1) :
                     IsValid(input, i) /\ StrLen(GetView(input, i)) # W}
             ELSE IF input.type.layout \in {"offset", "view", "fixed"}
                     /\ NeedsUtf8Guard(input.type, options.to_type, options)
             THEN {i \in 0..(input.length - 1) :
                     IsValid(input, i) /\ ~ValidateUTF8Inline(GetView(input, i))}
             ELSE {}
  IN  IF bad = {} THEN -1 ELSE Min(bad)

\* C12: a conversion that fails stops at the first violation and leaves the
\* destination array as it was before the call, with no buffer assigned,
\* replaced or filled.
C12_NoPartialResult ==
  Failed
  => /\ fail_slot = FirstViolation
     /\ fail_slot # -1 => \A i \in visited : i <= fail_slot
     /\ out = PreCall

\* C12 as amended: a conversion that fails stops at the first violation and
\* returns only the error. After a failed UTF-8 pass, a width mismatch (of
\* a slot, or of the two fixed widths), a Fixed -> Offset overflow or an
\* unknown time zone the destination array is as before the call.
\* The offset narrowing fails after the zero-copy step, with the
\* destination holding the source's buffers; the Offset -> View capacity
\* check fails after the zero-copy step and the allocation of the views,
\* with the source's validity and data and a zero-filled views buffer; the
\* Fixed -> View capacity check fails with the source's validity and a
\* zero-filled views buffer. No offset or view has been written.
C12_FailFastAmended ==
  Failed
  => /\ fail_slot = FirstViolation
     /\ fail_slot # -1 => \A i \in visited : i <= fail_slot
     /\ (fail_slot # -1
           \/ hist[Len(hist)] \in {"FixedToOffset", "FixedToFixed", "TimestampToString"})
          => out = PreCall
     /\ fail_slot = -1 =>
          LET k == hist[Len(hist)]
              zeroes == [j \in 1..(input.offset + input.length) |-> ZeroView]
          IN  /\ k \in {"OffsetToOffset", "OffsetToView", "FixedToView", "FixedToOffset",
                       "FixedToFixed", "TimestampToString"}
              /\ k = "OffsetToOffset" =>
                    /\ out = ZeroCopyCastExec(input, PreCall)
              /\ k = "OffsetToView" =>
                    /\ out.buffers[0] = input.buffers[0]
                    /\ out.buffers[2] = input.buffers[2]
                    /\ out.buffers[1].views = zeroes
                    /\ out.buffers[1].id \notin BufferIds(input)
              /\ k = "FixedToView" =>
                    /\ out.buffers[0] = input.buffers[0]
                    /\ out.buffers[2] = NoBuffer
                    /\ out.buffers[1].views = zeroes
                    /\ out.buffers[1].id \notin BufferIds(input)

C12_Witness ==
  /\ Failed /\ hist = <<"OffsetToView">> /\ status = "CapacityError"
  /\ fail_slot = -1 /\ "Utf8Validator" \in {log[j] : j \in 1..Len(log)}
  /\ input.length = 2 /\ out.buffers[2].id = 3
  /\ out.buffers[1].views = <<ZeroView, ZeroView>>

GuardRan == "Utf8Validator" \in {log[j] : j \in 1..Len(log)}

\* C13: the UTF-8 pass runs only for a destination type that is UTF-8, a
\* source type that is not and allow_invalid_utf8 false; it is the first
\* step of the kernel and runs once; when it fails nothing else has run and
\* the destination is untouched; when it passes it has visited every
\* non-null slot before any other step; the source array is not changed.
C13_GuardOrdering ==
  (pc = "done" /\ GuardRan)
  => /\ ~input.type.utf8 /\ options.to_type.utf8 /\ ~options.allow_invalid_utf8
     /\ input.type.layout \in {"offset", "view", "fixed"}
     /\ log[1] = "Utf8Validator"
     /\ \A j \in 2..Len(log) : log[j] # "Utf8Validator"
     /\ fail_slot # -1 => /\ log = <<"Utf8Validator">>
                          /\ status = "Invalid"
                          /\ out = PreCall
                          /\ wrote = {}
     /\ fail_slot = -1 => visited = SetBitRunSlots(input)
     /\ Len(hist) = 1 => input = orig

C13_Witness ==
  /\ pc = "done" /\ GuardRan /\ status = "OK" /\ hist = <<"FixedToOffset">>
  /\ Len(log) > 1
  /\ input.length = 2 /\ ~IsValid(input, 0) /\ visited = {1}
  /\ out.buffers[2].id # 0

\* C14: Fixed -> Fixed succeeds exactly when the two byte widths are equal;
\* then the destination holds the source's buffers, offset, length and
\* slots unchanged; otherwise it fails with Invalid and no element is
\* truncated or padded, the destination being left as it was.
C14_FixedToFixed ==
  (pc = "done" /\ hist = <<"FixedToFixed">>)
  => /\ status = "OK" <=> input.type.width = options.to_type.width
     /\ status = "OK" =>
          /\ \A k \in 0..2 : out.buffers[k] = input.buffers[k]
          /\ out.offset = input.offset /\ out.length = input.length
          /\ out.null_count = input.null_count
          /\ Slots(out) = Slots(input)
          /\ log = <<"ZeroCopyCastExec">>
     /\ status # "OK" =>
          /\ status = "Invalid"
          /\ out = PreCall
          /\ log = <<>>

C14_Witness ==
  /\ pc = "done" /\ hist = <<"FixedToFixed">> /\ status = "OK"
  /\ input.type.width = kInlineSize + 1 /\ options.to_type.width = kInlineSize + 1
  /\ input.offset = 1 /\ input.length = 2 /\ ~IsValid(input, 0)
  /\ out.buffers[1].id = 2

\* The destination data buffer of the Fixed -> Offset cast just made is a
\* new buffer with the bytes of the source data buffer
FreshCopy ==
  /\ out.buffers[2].id # 0
  /\ out.buffers[2].id \notin BufferIds(input)
  /\ out.buffers[2].data = input.buffers[1].data

\* C15: after a successful Fixed -> Offset cast of a source with a data
\* buffer, the destination data buffer is a new buffer, not the source's,
\* with the same bytes, and slot i of the destination, read between
\* offsets i and i+1, has the W bytes of source slot i.
C15_DataCopied ==
  (pc = "done" /\ status = "OK" /\ hist = <<"FixedToOffset">>
     /\ input.buffers[1].id # 0)
  => /\ FreshCopy
     /\ \A i \in 0..(input.length - 1) :
          LET a == GetOffset(out, i)
              b == GetOffset(out, i + 1)
              W == I64(input.type.width)
          IN  /\ Leq64(Zero64, a) /\ Leq64(a, b)
              /\ StrSlice(out.buffers[2].data, a, Sub64(b, a))
                   = StrSlice(input.buffers[1].data, Mul64(W, input.offset + i), W)

\* What the renderer is to give for an instant v of a unit in a zone, each
\* text written out
ExpectedText(unit, timezone, v) ==
  Bytes(CASE
      \* 1970-01-01 00:00:00
         unit = "SECOND" /\ timezone = "" /\ v = 0 ->
           <<49, 57, 55, 48, 45, 48, 49, 45, 48, 49, 32, 48, 48, 58, 48, 48, 58, 48, 48>>
      \* 1969-12-31 23:59:59
      [] unit = "SECOND" /\ timezone = "" /\ v = -1 ->
           <<49, 57, 54, 57, 45, 49, 50, 45, 51, 49, 32, 50, 51, 58, 53, 57, 58, 53, 57>>
      \* 2021-01-01 00:00:00
      [] unit = "SECOND" /\ timezone = "" /\ v = 1609459200 ->
           <<50, 48, 50, 49, 45, 48, 49, 45, 48, 49, 32, 48, 48, 58, 48, 48, 58, 48, 48>>
      \* 1970-01-01 00:00:00Z
      [] unit = "SECOND" /\ timezone = "UTC" /\ v = 0 ->
           <<49, 57, 55, 48, 45, 48, 49, 45, 48, 49, 32, 48, 48, 58, 48, 48, 58, 48, 48, 90>>
      \* 1969-12-31 23:59:59Z
      [] unit = "SECOND" /\ timezone = "UTC" /\ v = -1 ->
           <<49, 57, 54, 57, 45, 49, 50, 45, 51, 49, 32, 50, 51, 58, 53, 57, 58, 53, 57, 90>>
      \* 2021-01-01 00:00:00Z
      [] unit = "SECOND" /\ timezone = "UTC" /\ v = 1609459200 ->
           <<50, 48, 50, 49, 45, 48, 49, 45, 48, 49, 32, 48, 48, 58, 48, 48, 58, 48, 48, 90>>
      \* 1970-01-01 00:00:00+0000
      [] unit = "SECOND" /\ timezone = "Etc/UTC" /\ v = 0 ->
           <<49, 57, 55, 48, 45, 48, 49, 45, 48, 49, 32, 48, 48, 58, 48, 48, 58, 48, 48, 43, 48, 48, 48, 48>>
      \* 1969-12-31 23:59:59+0000
      [] unit = "SECOND" /\ timezone = "Etc/UTC" /\ v = -1 ->
           <<49, 57, 54, 57, 45, 49, 50, 45, 51, 49, 32, 50, 51, 58, 53, 57, 58, 53, 57, 43, 48, 48, 48, 48>>
      \* 2021-01-01 00:00:00+0000
      [] unit = "SECOND" /\ timezone = "Etc/UTC" /\ v = 1609459200 ->
           <<50, 48, 50, 49, 45, 48, 49, 45, 48, 49, 32, 48, 48, 58, 48, 48, 58, 48, 48, 43, 48, 48, 48, 48>>
      \* 1970-01-01 05:30:00+0530
      [] unit = "SECOND" /\ timezone = "Asia/Kolkata" /\ v = 0 ->
           <<49, 57, 55, 48, 45, 48, 49, 45, 48, 49, 32, 48, 53, 58, 51, 48, 58, 48, 48, 43, 48, 53, 51, 48>>
      \* 1970-01-01 05:29:59+0530
      [] unit = "SECOND" /\ timezone = "Asia/Kolkata" /\ v = -1 ->
           <<49, 57, 55, 48, 45, 48, 49, 45, 48, 49, 32, 48, 53, 58, 50, 57, 58, 53, 57, 43, 48, 53, 51, 48>>
      \* 2021-01-01 05:30:00+0530
      [] unit = "SECOND" /\ timezone = "Asia/Kolkata" /\ v = 1609459200 ->
           <<50, 48, 50, 49, 45, 48, 49, 45, 48, 49, 32, 48, 53, 58, 51, 48, 58, 48, 48, 43, 48, 53, 51, 48>>
      \* 1969-12-31 17:00:00-0700
      [] unit = "SECOND" /\ timezone = "America/Phoenix" /\ v = 0 ->
           <<49, 57, 54, 57, 45, 49, 50, 45, 51, 49, 32, 49, 55, 58, 48, 48, 58, 48, 48, 45, 48, 55, 48, 48>>
      \* 1969-12-31 16:59:59-0700
      [] unit = "SECOND" /\ timezone = "America/Phoenix" /\ v = -1 ->
           <<49, 57, 54, 57, 45, 49, 50, 45, 51, 49, 32, 49, 54, 58, 53, 57, 58, 53, 57, 45, 48, 55, 48, 48>>
      \* 2020-12-31 17:00:00-0700
      [] unit = "SECOND" /\ timezone = "America/Phoenix" /\ v = 1609459200 ->
           <<50, 48, 50, 48, 45, 49, 50, 45, 51, 49, 32, 49, 55, 58, 48, 48, 58, 48, 48, 45, 48, 55, 48, 48>>
      \* 1970-01-01 00:00:00.000
      [] unit = "MILLI" /\ timezone = "" /\ v = 0 ->
           <<49, 57, 55, 48, 45, 48, 49, 45, 48, 49, 32, 48, 48, 58, 48, 48, 58, 48, 48, 46, 48, 48, 48>>
      \* 1969-12-31 23:59:59.999
      [] unit = "MILLI" /\ timezone = "" /\ v = -1 ->
           <<49, 57, 54, 57, 45, 49, 50, 45, 51, 49, 32, 50, 51, 58, 53, 57, 58, 53, 57, 46, 57, 57, 57>>
      \* 1970-01-19 15:04:19.200
      [] unit = "MILLI" /\ timezone = "" /\ v = 1609459200 ->
           <<49, 57, 55, 48, 45, 48, 49, 45, 49, 57, 32, 49, 53, 58, 48, 52, 58, 49, 57, 46, 50, 48, 48>>
      \* 1970-01-01 00:00:00.000Z
      [] unit = "MILLI" /\ timezone = "UTC" /\ v = 0 ->
           <<49, 57, 55, 48, 45, 48, 49, 45, 48, 49, 32, 48, 48, 58, 48, 48, 58, 48, 48, 46, 48, 48, 48, 90>>
      \* 1969-12-31 23:59:59.999Z
      [] unit = "MILLI" /\ timezone = "UTC" /\ v = -1 ->
           <<49, 57, 54, 57, 45, 49, 50, 45, 51, 49, 32, 50, 51, 58, 53, 57, 58, 53, 57, 46, 57, 57, 57, 90>>
      \* 1970-01-19 15:04:19.200Z
      [] unit = "MILLI" /\ timezone = "UTC" /\ v = 1609459200 ->
           <<49, 57, 55, 48, 45, 48, 49, 45, 49, 57, 32, 49, 53, 58, 48, 52, 58, 49, 57, 46, 50, 48, 48, 90>>
      \* 1970-01-01 00:00:00.000+0000
      [] unit = "MILLI" /\ timezone = "Etc/UTC" /\ v = 0 ->
           <<49, 57, 55, 48, 45, 48, 49, 45, 48, 49, 32, 48, 48, 58, 48, 48, 58, 48, 48, 46, 48, 48, 48, 43, 48, 48, 48, 48>>
      \* 1969-12-31 23:59:59.999+0000
      [] unit = "MILLI" /\ timezone = "Etc/UTC" /\ v = -1 ->
           <<49, 57, 54, 57, 45, 49, 50, 45, 51, 49, 32, 50, 51, 58, 53, 57, 58, 53, 57, 46, 57, 57, 57, 43, 48, 48, 48, 48>>
      \* 1970-01-19 15:04:19.200+0000
      [] unit = "MILLI" /\ timezone = "Etc/UTC" /\ v = 1609459200 ->
           <<49, 57, 55, 48, 45, 48, 49, 45, 49, 57, 32, 49, 53, 58, 48, 52, 58, 49, 57, 46, 50, 48, 48, 43, 48, 48, 48, 48>>
      \* 1970-01-01 05:30:00.000+0530
      [] unit = "MILLI" /\ timezone = "Asia/Kolkata" /\ v = 0 ->
           <<49, 57, 55, 48, 45, 48, 49, 45, 48, 49, 32, 48, 53, 58, 51, 48, 58, 48, 48, 46, 48, 48, 48, 43, 48, 53, 51, 48>>
      \* 1970-01-01 05:29:59.999+0530
      [] unit = "MILLI" /\ timezone = "Asia/Kolkata" /\ v = -1 ->
           <<49, 57, 55, 48, 45, 48, 49, 45, 48, 49, 32, 48, 53, 58, 50, 57, 58, 53, 57, 46, 57, 57, 57, 43, 48, 53, 51, 48>>
      \* 1970-01-19 20:34:19.200+0530
      [] unit = "MILLI" /\ timezone = "Asia/Kolkata" /\ v = 1609459200 ->
           <<49, 57, 55, 48, 45, 48, 49, 45, 49, 57, 32, 50, 48, 58, 51, 52, 58, 49, 57, 46, 50, 48, 48, 43, 48, 53, 51, 48>>
      \* 1969-12-31 17:00:00.000-0700
      [] unit = "MILLI" /\ timezone = "America/Phoenix" /\ v = 0 ->
           <<49, 57, 54, 57, 45, 49, 50, 45, 51, 49, 32, 49, 55, 58, 48, 48, 58, 48, 48, 46, 48, 48, 48, 45, 48, 55, 48, 48>>
      \* 1969-12-31 16:59:59.999-0700
      [] unit = "MILLI" /\ timezone = "America/Phoenix" /\ v = -1 ->
           <<49, 57, 54, 57, 45, 49, 50, 45, 51, 49, 32, 49, 54, 58, 53, 57, 58, 53, 57, 46, 57, 57, 57, 45, 48, 55, 48, 48>>
      \* 1970-01-19 08:04:19.200-0700
      [] unit = "MILLI" /\ timezone = "America/Phoenix" /\ v = 1609459200 ->
           <<49, 57, 55, 48, 45, 48, 49, 45, 49, 57, 32, 48, 56, 58, 48, 52, 58, 49, 57, 46, 50, 48, 48, 45, 48, 55, 48, 48>>)

\* The text in slot i of an array
Text(arr, i) == Slots(arr)[i + 1].val

KnownZones == {"UTC", "Etc/UTC", "Asia/Kolkata", "America/Phoenix"}

\* C16: a timestamp column without a zone is rendered in the naive civil
\* form without suffix, one whose zone is exactly "UTC" with the suffix "Z",
\* one with another zone in that zone's civil time with a +HHMM / -HHMM
\* suffix; the zone is resolved once per call and an unknown zone fails the
\* conversion before any element is appended; a null instant gives a null
\* slot and the formatter is not invoked on it.
C16_TimestampSuffix ==
  (pc = "done" /\ hist = <<"TimestampToString">>)
  => LET timezone == input.type.timezone
         resolved == {j \in 1..Len(log) : log[j] = "LocateZone"}
     IN  /\ status = "OK" <=> timezone \in KnownZones \cup {""}
         /\ Cardinality(resolved) = IF timezone = "" THEN 0 ELSE 1
         /\ \A j \in resolved : \A k \in 1..Len(log) : log[k] = "Append" => j < k
         /\ status # "OK" =>
              /\ \A k \in 1..Len(log) : log[k] # "Append"
              /\ visited = {} /\ wrote = {}
              /\ out = PreCall
         /\ status = "OK" =>
              /\ out.length = input.length
              /\ \A i \in 0..(input.length - 1) :
                   IF IsValid(input, i)
                   THEN /\ IsValid(out, i)
                        /\ i \in visited
                        /\ Text(out, i) = ExpectedText(input.type.unit, timezone,
                                                       TimestampValue(input, i))
                   ELSE /\ ~IsValid(out, i)
                        /\ i \notin visited

\* 2021-01-01 00:00:00 UTC in Asia/Kolkata, after a null, in a sliced array
C16_Witness ==
  /\ pc = "done" /\ hist = <<"TimestampToString">> /\ status = "OK"
  /\ input.type.unit = "SECOND" /\ input.type.timezone = "Asia/Kolkata"
  /\ input.offset = 1 /\ input.length = 2
  /\ ~IsValid(input, 0) /\ TimestampValue(input, 1) = 1609459200
  /\ options.to_type.layout = "view"
  /\ StrLen(Text(out, 1)) = I64(24)
  /\ StrTake(StrDrop(Text(out, 1), I64(19)), I64(1)) = Bytes(<<43>>)

\* C17: after Fixed -> Offset the destination shares the source validity
\* bitmap when the two start offsets are equal; otherwise it has a new
\* bitmap with the source bits [offset, offset + length) moved to bit 0 when
\* the source has a bitmap, and none when the source has none; in every
\* case destination slot i is null exactly when source slot i is.
C17_ValidityAdaptation ==
  (pc = "done" /\ status = "OK" /\ hist = <<"FixedToOffset">>)
  => /\ input.offset = out.offset => out.buffers[0] = input.buffers[0]
     /\ (input.offset # out.offset /\ input.buffers[0].id # 0)
          => /\ out.buffers[0].id # 0
             /\ out.buffers[0].id \notin BufferIds(input)
             /\ out.buffers[0].bits
                  = [j \in 1..input.length |-> input.buffers[0].bits[input.offset + j]]
     /\ (input.offset # out.offset /\ input.buffers[0].id = 0)
          => out.buffers[0].id = 0
     /\ \A i \in 0..(input.length - 1) : IsValid(out, i) = IsValid(input, i)

C17_Witness ==
  /\ pc = "done" /\ status = "OK" /\ hist = <<"FixedToOffset">>
  /\ input.offset = 1 /\ out.offset = 0 /\ input.length = 2
  /\ input.buffers[0].bits = <<FALSE, TRUE, FALSE>>
  /\ out.buffers[0].bits = <<TRUE, FALSE>>
  /\ out.buffers[0].id # input.buffers[0].id

\* The builders of View -> Offset after the first k slots of the pass
BuildersAfter(k) ==
  ViewToOffsetLoop([input EXCEPT !.length = k], options.to_type.bits, 0,
                   [data |-> <<>>, offs |-> <<Zero64>>])

\* What the pass never exceeds: the data builder holds at most the reserved
\* sum of all view sizes, the offset builder at most N + 1 entries
WithinReserved ==
  \A k \in 0..input.length :
     /\ Leq64(StrLen(BuildersAfter(k).data), SumOfBinaryViewSizes(input, 0))
     /\ Len(BuildersAfter(k).offs) = k + 1
     /\ Len(BuildersAfter(k).offs) <= input.length + 1

\* C18: in View -> Offset the data builder reserves the sum of the sizes of
\* all N views, nulls included, and the offset builder N + 1 entries; no
\* append goes past what is reserved; at the end there are N + 1 offsets,
\* the first is 0, they do not decrease and the last is the length of the
\* destination data buffer.
C18_ReserveCoversAppends ==
  (pc = "done" /\ status = "OK" /\ hist[Len(hist)] = "ViewToOffset")
  => /\ WithinReserved
     /\ Len(out.buffers[1].offs) = input.length + 1
     /\ GetOffset(out, 0) = Zero64
     /\ \A i \in 0..(input.length - 1) : Leq64(GetOffset(out, i), GetOffset(out, i + 1))
     /\ GetOffset(out, input.length) = StrLen(out.buffers[2].data)

====
